---- MODULE Spec2Model ----
(***************************************************************************)
(* Pseudo-random generators (LCG, XORShift) and probabilistic primality    *)
(* tests (Fermat, Miller-Rabin, coprime-base Fermat) of the repository,    *)
(* as state machines.                                                      *)
(*                                                                         *)
(* Python integers are unbounded, TLC's are 32-bit.  Generator words and   *)
(* seeds are therefore sign-magnitude numbers: a record [neg, mag] whose   *)
(* mag is the sequence of the magnitude's base-256 digits, least           *)
(* significant first, with no leading zero digit (zero is the empty        *)
(* sequence).  The numbers of the primality tests stay far below 2^31 and  *)
(* are TLC integers.                                                       *)
(***************************************************************************)
EXTENDS Integers, Sequences, FiniteSets, TLC

VARIABLES
    variant,    \* generators: "LCG" or "XORShift"; "none" when no generator runs
    seed,       \* the constructor's seed argument (a number, or None)
    gen,        \* the generator object's fields
    twin,       \* a second generator of the same variant
    twinSeed,   \* the seed argument twin was constructed with
    outs,       \* every value next() returned on gen, in order
    twinOuts,   \* every value next() returned on twin, in order
    op,         \* the last call made on gen: "init", "next", "randbits"
    karg,       \* the k of the last randbits call
    ret,        \* the value the last call returned
    raised,     \* whether the last call raised an exception
    test,       \* primality: the function called; "none" when none runs
    n,          \* its argument n
    k,          \* its argument k
    pc,         \* its position: "start", "loop", "done"
    i,          \* bases drawn so far (iterations of the for loop entered)
    a,          \* the base drawn in the last iteration
    d,          \* miller_rabin_test: the odd part of n-1
    s,          \* miller_rabin_test: the exponent of 2 in n-1
    result      \* the returned verdict, once pc = "done" (FALSE before)

genVars ==
    <<variant, seed, gen, twin, twinSeed, outs, twinOuts, op, karg, ret, raised>>
primeVars == <<test, n, k, pc, i, a, d, s, result>>
vars == <<genVars, primeVars>>

\* Python's None (a record, so that TLC can compare it with a number)
None == [none |-> TRUE]

-----------------------------------------------------------------------------
(* Arithmetic on magnitudes: sequences of base-256 digits, least           *)
(* significant first, the last digit non-zero.                             *)

B == 2 ^ 8

Digit(b, j) == IF j >= 1 /\ j <= Len(b) THEN b[j] ELSE 0

MaxOf(x, y) == IF x >= y THEN x ELSE y

RECURSIVE Trim(_)
Trim(b) ==
    IF b = <<>> THEN <<>>
    ELSE IF b[Len(b)] # 0 THEN b
    ELSE Trim(SubSeq(b, 1, Len(b) - 1))

RECURSIVE NatMag(_)
NatMag(v) == IF v = 0 THEN <<>> ELSE <<v % B>> \o NatMag(v \div B)

\* the value of a magnitude below 2^31
RECURSIVE MagNat(_)
MagNat(b) == IF b = <<>> THEN 0 ELSE Head(b) + B * MagNat(Tail(b))

\* 2^e
Pow2Mag(e) ==
    [j \in 1..((e \div 8) + 1) |-> IF j = (e \div 8) + 1 THEN 2 ^ (e % 8) ELSE 0]

RECURSIVE AddFrom(_, _, _, _)
AddFrom(x, y, j, c) ==
    IF j > Len(x) /\ j > Len(y)
    THEN IF c # 0 THEN <<c>> ELSE <<>>
    ELSE LET t == Digit(x, j) + Digit(y, j) + c
         IN  <<t % B>> \o AddFrom(x, y, j + 1, t \div B)

AddMag(x, y) == AddFrom(x, y, 1, 0)

\* x - y for x >= y
RECURSIVE SubFrom(_, _, _, _)
SubFrom(x, y, j, c) ==
    IF j > Len(x) THEN <<>>
    ELSE LET t == Digit(x, j) - Digit(y, j) - c
         IN  <<t % B>> \o SubFrom(x, y, j + 1, IF t < 0 THEN 1 ELSE 0)

SubMag(x, y) == Trim(SubFrom(x, y, 1, 0))

\* x < y
RECURSIVE LessFrom(_, _, _)
LessFrom(x, y, j) ==
    IF j = 0 THEN FALSE
    ELSE IF Digit(x, j) # Digit(y, j) THEN Digit(x, j) < Digit(y, j)
    ELSE LessFrom(x, y, j - 1)

LessMag(x, y) == LessFrom(x, y, MaxOf(Len(x), Len(y)))

\* x * 2^c
ShlMag(x, c) ==
    LET q == c \div 8
        r == c % 8
    IN  Trim([j \in 1..(Len(x) + q + 1) |->
                ((Digit(x, j - q) * (2 ^ r)) % B)
                    + (Digit(x, j - q - 1) \div (2 ^ (8 - r)))])

\* floor(x / 2^c)
ShrMag(x, c) ==
    LET q == c \div 8
        r == c % 8
    IN  Trim([j \in 1..MaxOf(Len(x) - q, 0) |->
                (Digit(x, j + q) \div (2 ^ r))
                    + ((Digit(x, j + q + 1) % (2 ^ r)) * (2 ^ (8 - r)))])

\* x mod 2^c
LowMag(x, c) ==
    LET q == c \div 8
        r == c % 8
    IN  Trim([j \in 1..(q + 1) |->
                IF j <= q THEN Digit(x, j) ELSE Digit(x, j) % (2 ^ r)])

\* x * m for one digit m
RECURSIVE MulDigitFrom(_, _, _, _)
MulDigitFrom(x, m, j, c) ==
    IF j > Len(x)
    THEN IF c # 0 THEN <<c>> ELSE <<>>
    ELSE LET t == x[j] * m + c
         IN  <<t % B>> \o MulDigitFrom(x, m, j + 1, t \div B)

RECURSIVE MulFrom(_, _, _)
MulFrom(x, y, j) ==
    IF j > Len(x) THEN <<>>
    ELSE AddMag(MulDigitFrom(y, x[j], 1, 0), <<0>> \o MulFrom(x, y, j + 1))

MulMag(x, y) == Trim(MulFrom(x, y, 1))

\* bitwise operations on two digits
RECURSIVE XorNat(_, _)
XorNat(p, q) ==
    IF p = 0 /\ q = 0 THEN 0
    ELSE ((p + q) % 2) + 2 * XorNat(p \div 2, q \div 2)

RECURSIVE AndNat(_, _)
AndNat(p, q) ==
    IF p = 0 \/ q = 0 THEN 0
    ELSE ((p % 2) * (q % 2)) + 2 * AndNat(p \div 2, q \div 2)

RECURSIVE OrNat(_, _)
OrNat(p, q) ==
    IF p = 0 /\ q = 0 THEN 0
    ELSE MaxOf(p % 2, q % 2) + 2 * OrNat(p \div 2, q \div 2)

XorMag(x, y) ==
    Trim([j \in 1..MaxOf(Len(x), Len(y)) |-> XorNat(Digit(x, j), Digit(y, j))])

OrMag(x, y) ==
    Trim([j \in 1..MaxOf(Len(x), Len(y)) |-> OrNat(Digit(x, j), Digit(y, j))])

AndMag(x, y) ==
    Trim([j \in 1..MaxOf(Len(x), Len(y)) |-> AndNat(Digit(x, j), Digit(y, j))])

\* the number of significant bits (Python's int.bit_length)
RECURSIVE NatBitLength(_)
NatBitLength(v) == IF v = 0 THEN 0 ELSE 1 + NatBitLength(v \div 2)

BitLength(x) ==
    IF x = <<>> THEN 0 ELSE 8 * (Len(x) - 1) + NatBitLength(x[Len(x)])

-----------------------------------------------------------------------------
(* Python's int operations on sign-magnitude numbers.                      *)

MkInt(neg, mag) == [neg |-> neg /\ mag # <<>>, mag |-> mag]

FromNat(v) == MkInt(FALSE, NatMag(v))

Zero == MkInt(FALSE, <<>>)

One == MkInt(FALSE, <<1>>)

\* x * y
PyMul(x, y) == MkInt(x.neg # y.neg, MulMag(x.mag, y.mag))

\* x + y
PyAdd(x, y) ==
    IF x.neg = y.neg THEN MkInt(x.neg, AddMag(x.mag, y.mag))
    ELSE IF LessMag(x.mag, y.mag) THEN MkInt(y.neg, SubMag(y.mag, x.mag))
    ELSE MkInt(x.neg, SubMag(x.mag, y.mag))

\* x % 2**e: Python's result has the sign of the (positive) modulus
PyModPow2(x, e) ==
    LET r == LowMag(x.mag, e)
    IN  IF x.neg /\ r # <<>> THEN MkInt(FALSE, SubMag(Pow2Mag(e), r))
        ELSE MkInt(FALSE, r)

\* x & mask for a mask >= 0: a negative x is read in two's complement,
\* -m = ~(m - 1)
PyAnd(x, mask) ==
    IF ~x.neg THEN MkInt(FALSE, AndMag(x.mag, mask.mag))
    ELSE LET m1 == SubMag(x.mag, <<1>>)
         IN  MkInt(FALSE, Trim([j \in 1..Len(mask.mag) |->
                                AndNat(mask.mag[j], B - 1 - Digit(m1, j))]))

\* x >> c for c >= 0: floor(x / 2^c)
PyShr(x, c) ==
    IF ~x.neg THEN MkInt(FALSE, ShrMag(x.mag, c))
    ELSE MkInt(TRUE, AddMag(ShrMag(SubMag(x.mag, <<1>>), c), <<1>>))

\* x << c for x >= 0, c >= 0
PyShl(x, c) == MkInt(FALSE, ShlMag(x.mag, c))

\* x ^ y and x | y for x, y >= 0
PyXor(x, y) == MkInt(FALSE, XorMag(x.mag, y.mag))

PyOr(x, y) == MkInt(FALSE, OrMag(x.mag, y.mag))

-----------------------------------------------------------------------------
(* Bounds of the model.                                                    *)

\* next() calls made on one generator (randbits counts the calls it makes)
MaxCalls == 4

\* randbits is called with every k in MinK..SmallK and with the k around
\* each multiple of 32 up to 32 * MaxWords
SmallK == 3

MaxWords == 2

MinK == 0 - 2

Ks ==
    (MinK..SmallK)
        \cup UNION {{32 * q - 1, 32 * q, 32 * q + 1} : q \in 1..MaxWords}

Variants == {"LCG", "XORShift"}

\* -v for a TLC natural v
Neg(v) == MkInt(TRUE, NatMag(v))

\* the number with the 32-bit slices w0 (bits 0-31) .. w3 (bits 96-127)
Slices(w0, w1, w2, w3) ==
    PyAdd(FromNat(w0), PyAdd(PyShl(FromNat(w1), 32),
        PyAdd(PyShl(FromNat(w2), 64), PyShl(FromNat(w3), 96))))

\* explicit seeds: zero, small, the documented 12345, wider than one word,
\* all four slices set, wider than 128 bits, negative
Seeds ==
    { Zero, One, FromNat(12345), FromNat(2147483647),
      Slices(7, 1, 0, 0), Slices(0, 0, 0, 9), Slices(1, 2, 3, 4),
      PyShl(One, 128), PyAdd(PyShl(One, 128), FromNat(12345)),
      Neg(1), Neg(12345), MkInt(TRUE, Pow2Mag(128)) }

\* values int(time.time() * 1e6) can take: microseconds since the epoch
Clocks == { Slices(12345, 400000, 0, 0), Slices(12346, 400000, 0, 0) }

-----------------------------------------------------------------------------
(* LCG                                                                     *)

LCG_a == 1103515245

LCG_c == 12345

\* m = 2**LCG_m_exp
LCG_m_exp == 32

\* faulty variant of LCG_init: the clock is read even when a seed is given
LCG_init_IgnoresSeed(seedArg, clock) == [state |-> clock]

\* LCG.__init__: the seed verbatim, or the clock's microseconds
LCG_init(seedArg, clock) ==
    IF seedArg = None THEN [state |-> clock] ELSE [state |-> seedArg]

\* faulty variant of LCG_next: the increment c is left out
LCG_next_NoIncrement(g) ==
    LET st == PyModPow2(PyMul(FromNat(LCG_a), g.state), LCG_m_exp)
    IN  [gen |-> [state |-> st], out |-> st]

\* LCG.next: the new fields and the returned value
LCG_next(g) ==
    LET st == PyModPow2(PyAdd(PyMul(FromNat(LCG_a), g.state), FromNat(LCG_c)),
                        LCG_m_exp)
    IN  [gen |-> [state |-> st], out |-> st]

-----------------------------------------------------------------------------
(* XORShift                                                                *)

\* 0xFFFFFFFF
Mask32 == MkInt(FALSE, [j \in 1..4 |-> B - 1])

\* faulty variant of XORShift_init: the all-zero state is not repaired
XORShift_init_NoRepair(seedArg, clock) ==
    LET sd == IF seedArg = None THEN clock ELSE seedArg
    IN  [x |-> PyAnd(sd, Mask32), y |-> PyAnd(PyShr(sd, 32), Mask32),
         z |-> PyAnd(PyShr(sd, 64), Mask32), w |-> PyAnd(PyShr(sd, 96), Mask32)]

\* faulty variant of XORShift_init: the top slice is not masked
XORShift_init_TopUnmasked(seedArg, clock) ==
    LET sd == IF seedArg = None THEN clock ELSE seedArg
        x0 == PyAnd(sd, Mask32)
        y0 == PyAnd(PyShr(sd, 32), Mask32)
        z0 == PyAnd(PyShr(sd, 64), Mask32)
        w0 == PyShr(sd, 96)
    IN  IF x0 = Zero /\ y0 = Zero /\ z0 = Zero /\ w0 = Zero
        THEN [x |-> One, y |-> y0, z |-> z0, w |-> w0]
        ELSE [x |-> x0, y |-> y0, z |-> z0, w |-> w0]

\* XORShift.__init__: four 32-bit slices of the seed, x forced to 1 when
\* all four are zero
XORShift_init(seedArg, clock) ==
    LET sd == IF seedArg = None THEN clock ELSE seedArg
        x0 == PyAnd(sd, Mask32)
        y0 == PyAnd(PyShr(sd, 32), Mask32)
        z0 == PyAnd(PyShr(sd, 64), Mask32)
        w0 == PyAnd(PyShr(sd, 96), Mask32)
    IN  IF x0 = Zero /\ y0 = Zero /\ z0 = Zero /\ w0 = Zero
        THEN [x |-> One, y |-> y0, z |-> z0, w |-> w0]
        ELSE [x |-> x0, y |-> y0, z |-> z0, w |-> w0]

\* faulty variant of XORShift_next: t is left out of the new w
XORShift_next_DropsT(g) ==
    LET w1 == PyXor(g.w, PyShr(g.w, 19))
    IN  [gen |-> [x |-> g.y, y |-> g.z, z |-> g.w, w |-> w1], out |-> w1]

\* faulty variant of XORShift_next: the shifted x is not masked to 32 bits
XORShift_next_NoMask(g) ==
    LET t == PyXor(g.x, PyShl(g.x, 11))
        w1 == PyXor(PyXor(g.w, PyShr(g.w, 19)), PyXor(t, PyShr(t, 8)))
    IN  [gen |-> [x |-> g.y, y |-> g.z, z |-> g.w, w |-> w1], out |-> w1]

\* faulty variant of XORShift_next: t is computed after the rotation, from
\* the new x
XORShift_next_LateT(g) ==
    LET t == PyXor(g.y, PyAnd(PyShl(g.y, 11), Mask32))
        w1 == PyXor(PyXor(g.w, PyShr(g.w, 19)), PyXor(t, PyShr(t, 8)))
    IN  [gen |-> [x |-> g.y, y |-> g.z, z |-> g.w, w |-> w1], out |-> w1]

\* XORShift.next.  In  self.x ^ (self.x << 11) & 0xFFFFFFFF  Python's &
\* binds tighter than ^.
XORShift_next(g) ==
    LET t == PyXor(g.x, PyAnd(PyShl(g.x, 11), Mask32))
        w1 == PyXor(PyXor(g.w, PyShr(g.w, 19)), PyXor(t, PyShr(t, 8)))
    IN  [gen |-> [x |-> g.y, y |-> g.z, z |-> g.w, w |-> w1], out |-> w1]

-----------------------------------------------------------------------------
(* The PRNG interface, dispatched on the variant.                          *)

Construct(v, seedArg, clock) ==
    IF v = "LCG" THEN LCG_init(seedArg, clock) ELSE XORShift_init(seedArg, clock)

NextOf(v, g) == IF v = "LCG" THEN LCG_next(g) ELSE XORShift_next(g)

\* ceil(k / 32): the float quotient is exact for the k of the model
NumWords(kk) == (kk + 31) \div 32

\* faulty variant of WordLoop: the first word drawn becomes the least
\* significant one
RECURSIVE WordLoop_LeastFirst(_, _, _, _, _)
WordLoop_LeastFirst(v, g, todo, rand_val, produced) ==
    IF todo <= 0 THEN [gen |-> g, rand_val |-> rand_val, outs |-> produced]
    ELSE LET r == NextOf(v, g)
         IN  WordLoop_LeastFirst(v, r.gen, todo - 1,
                                 PyOr(rand_val, PyShl(r.out, 32 * Len(produced))),
                                 Append(produced, r.out))

\* for _ in range(num_words): rand_val = (rand_val << 32) | self.next()
RECURSIVE WordLoop(_, _, _, _, _)
WordLoop(v, g, todo, rand_val, produced) ==
    IF todo <= 0 THEN [gen |-> g, rand_val |-> rand_val, outs |-> produced]
    ELSE LET r == NextOf(v, g)
         IN  WordLoop(v, r.gen, todo - 1, PyOr(PyShl(rand_val, 32), r.out),
                      Append(produced, r.out))

\* faulty variant of RandBitsWords: the most significant bit is not forced
RandBitsWords_NoMsb(v, g, kk) ==
    LET l == WordLoop(v, g, NumWords(kk), Zero, <<>>)
    IN  [gen |-> l.gen, outs |-> l.outs,
         ret |-> PyAnd(l.rand_val, PyAdd(PyShl(One, kk), Neg(1))),
         raised |-> FALSE]

\* randbits after its k <= 0 guard.  1 << c raises ValueError for c < 0.
RandBitsWords(v, g, kk) ==
    LET l == WordLoop(v, g, NumWords(kk), Zero, <<>>)
    IN  IF kk < 0 \/ kk - 1 < 0
        THEN [gen |-> l.gen, outs |-> l.outs, ret |-> None, raised |-> TRUE]
        ELSE LET masked == PyAnd(l.rand_val, PyAdd(PyShl(One, kk), Neg(1)))
             IN  [gen |-> l.gen, outs |-> l.outs,
                  ret |-> PyOr(masked, PyShl(One, kk - 1)), raised |-> FALSE]

\* faulty variant of RandBits: the k <= 0 guard is left out
RandBits_NoGuard(v, g, kk) == RandBitsWords(v, g, kk)

\* LCG.randbits and XORShift.randbits (the same text in both classes)
RandBits(v, g, kk) ==
    IF kk <= 0
    THEN [gen |-> g, outs |-> <<>>, ret |-> Zero, raised |-> FALSE]
    ELSE RandBitsWords(v, g, kk)

-----------------------------------------------------------------------------
(* Generator state machine.                                                *)

PrimeIdle ==
    /\ test = "none" /\ n = 0 /\ k = 0 /\ pc = "idle" /\ i = 0 /\ a = 0
    /\ d = 0 /\ s = 0 /\ result = FALSE

GenInit ==
    /\ variant \in Variants
    /\ seed \in Seeds \cup {None}
    /\ twinSeed = seed
    /\ \E c1 \in Clocks, c2 \in Clocks :
          /\ gen = Construct(variant, seed, c1)
          /\ twin = Construct(variant, seed, c2)
    /\ outs = <<>> /\ twinOuts = <<>>
    /\ op = "init" /\ karg = 0 /\ ret = None /\ raised = FALSE
    /\ PrimeIdle

CallNext ==
    /\ variant \in Variants
    /\ Len(outs) < MaxCalls
    /\ \E r \in {NextOf(variant, gen)} :
          /\ gen' = r.gen
          /\ outs' = Append(outs, r.out)
          /\ ret' = r.out
    /\ op' = "next" /\ karg' = 0 /\ raised' = FALSE
    /\ UNCHANGED <<variant, seed, twin, twinSeed, twinOuts, primeVars>>

CallRandbits ==
    /\ variant \in Variants
    /\ \E kk \in Ks :
          /\ Len(outs) + MaxOf(NumWords(kk), 0) <= MaxCalls
          /\ \E r \in {RandBits(variant, gen, kk)} :
                /\ gen' = r.gen
                /\ outs' = outs \o r.outs
                /\ ret' = r.ret
                /\ raised' = r.raised
          /\ karg' = kk
    /\ op' = "randbits"
    /\ UNCHANGED <<variant, seed, twin, twinSeed, twinOuts, primeVars>>

TwinNext ==
    /\ variant \in Variants
    /\ Len(twinOuts) < MaxCalls
    /\ \E r \in {NextOf(variant, twin)} :
          /\ twin' = r.gen
          /\ twinOuts' = Append(twinOuts, r.out)
    /\ UNCHANGED <<variant, seed, twinSeed, gen, outs, op, karg, ret, raised,
                   primeVars>>

GenNext == CallNext \/ CallRandbits

Spec == GenInit /\ [][GenNext]_vars

TwinStep == CallNext \/ TwinNext

SpecTwin == GenInit /\ [][TwinStep]_vars

\* Two generators whose seeds differ by a multiple of 2^(state width): twin
\* is constructed with seed + q * 2^width for q in -MaxShift..MaxShift, q # 0
MaxShift == 2

\* the number of bits of the seed the variant keeps
StateWidth(v) == IF v = "LCG" THEN LCG_m_exp ELSE 128

ShiftedSeed(v, sd, q) ==
    PyAdd(sd, PyMul(MkInt(q < 0, NatMag(IF q < 0 THEN 0 - q ELSE q)),
                    PyShl(One, StateWidth(v))))

CongruentInit ==
    /\ variant \in Variants
    /\ seed \in Seeds
    /\ \E q \in ((0 - MaxShift)..MaxShift) \ {0} :
          twinSeed = ShiftedSeed(variant, seed, q)
    /\ \E c1 \in Clocks, c2 \in Clocks :
          /\ gen = Construct(variant, seed, c1)
          /\ twin = Construct(variant, twinSeed, c2)
    /\ outs = <<>> /\ twinOuts = <<>>
    /\ op = "init" /\ karg = 0 /\ ret = None /\ raised = FALSE
    /\ PrimeIdle

SpecCongruent == CongruentInit /\ [][TwinStep]_vars

-----------------------------------------------------------------------------
(* Primality tests.                                                        *)

\* the default of the parameter k of the three tests
DefaultK == 20

\* arguments of the tests: every n in MinN..MaxN with every k in
\* MinRounds..MaxRounds, the documented numbers with the default k, and the
\* Carmichael numbers of carmichael_test.py
MaxN == 30

MinN == 0 - 2

MaxRounds == 2

MinRounds == 0 - 1

TableN == {0, 1, 4, 6, 8, 9, 100, 2, 3, 5, 7, 11, 97}

carmichael_numbers == {561, 1105, 1729}

\* Python's pow(base, e, m) for e >= 0 and m >= 1
RECURSIVE pow(_, _, _)
pow(base, e, m) ==
    IF e = 0 THEN 1 % m
    ELSE LET h == pow(base, e \div 2, m)
             sq == (h * h) % m
         IN  IF e % 2 = 1 THEN (sq * (base % m)) % m ELSE sq

\* faulty variant of TrivialCase: the first comparison is n <= 0, so that 1
\* falls through to n <= 3
TrivialCase_OneIsPrime(nn) ==
    IF nn <= 0 THEN [returns |-> TRUE, verdict |-> FALSE]
    ELSE IF nn <= 3 THEN [returns |-> TRUE, verdict |-> TRUE]
    ELSE IF nn % 2 = 0 THEN [returns |-> TRUE, verdict |-> FALSE]
    ELSE [returns |-> FALSE, verdict |-> FALSE]

\* the three early returns shared by the tests: whether one is taken, and
\* the verdict it returns
TrivialCase(nn) ==
    IF nn <= 1 THEN [returns |-> TRUE, verdict |-> FALSE]
    ELSE IF nn <= 3 THEN [returns |-> TRUE, verdict |-> TRUE]
    ELSE IF nn % 2 = 0 THEN [returns |-> TRUE, verdict |-> FALSE]
    ELSE [returns |-> FALSE, verdict |-> FALSE]

\* fermat_test: whether the drawn base lets the loop go on
FermatBasePasses(base, nn) == pow(base, nn - 1, nn) = 1

\* faulty variant of Decompose: d is halved once (if for while)
Decompose_HalvesOnce(dd, ss) ==
    IF dd % 2 = 0 THEN [d |-> dd \div 2, s |-> ss + 1] ELSE [d |-> dd, s |-> ss]

\* miller_rabin_test: while d % 2 == 0: d //= 2; s += 1
RECURSIVE Decompose(_, _)
Decompose(dd, ss) ==
    IF dd % 2 = 0 THEN Decompose(dd \div 2, ss + 1) ELSE [d |-> dd, s |-> ss]

\* faulty variant of SquareLoop: the squares are compared with 1, not n - 1
RECURSIVE SquareLoop_ComparesOne(_, _, _)
SquareLoop_ComparesOne(x, todo, nn) ==
    IF todo <= 0 THEN TRUE
    ELSE LET x2 == (x * x) % nn
         IN  IF x2 = 1 THEN FALSE ELSE SquareLoop_ComparesOne(x2, todo - 1, nn)

\* miller_rabin_test: the inner squaring loop; its value is is_composite
RECURSIVE SquareLoop(_, _, _)
SquareLoop(x, todo, nn) ==
    IF todo <= 0 THEN TRUE
    ELSE LET x2 == (x * x) % nn
         IN  IF x2 = nn - 1 THEN FALSE ELSE SquareLoop(x2, todo - 1, nn)

\* faulty variant of MillerRabinBasePasses: x == n - 1 is not accepted
\* before the squaring loop
MillerRabinBasePasses_NoMinusOne(base, dd, ss, nn) ==
    LET x == pow(base, dd, nn)
    IN  IF x = 1 THEN TRUE ELSE ~SquareLoop(x, ss - 1, nn)

\* faulty variant of MillerRabinBasePasses: is_composite starts as False, so
\* that the squaring loop cannot reject the base
MillerRabinBasePasses_FlagStartsFalse(base, dd, ss, nn) ==
    LET x == pow(base, dd, nn)
    IN  IF x = 1 \/ x = nn - 1 THEN TRUE ELSE ~(FALSE /\ SquareLoop(x, ss - 1, nn))

\* miller_rabin_test: whether the drawn base lets the outer loop go on
MillerRabinBasePasses(base, dd, ss, nn) ==
    LET x == pow(base, dd, nn)
    IN  IF x = 1 \/ x = nn - 1 THEN TRUE ELSE ~SquareLoop(x, ss - 1, nn)

BasePasses(t, base, dd, ss, nn) ==
    IF t = "fermat_test" THEN FermatBasePasses(base, nn)
    ELSE MillerRabinBasePasses(base, dd, ss, nn)

\* carmichael_test.gcd
RECURSIVE gcd(_, _)
gcd(x, y) == IF y # 0 THEN gcd(y, x % y) ELSE x

\* faulty variant of CoprimeIn: the gcd filter is left out
CoprimeIn_NoFilter(lo, hi, nn) == [j \in 1..MaxOf(hi - lo + 1, 0) |-> lo + j - 1]

\* the candidates lo..hi coprime to nn, ascending
RECURSIVE CoprimeIn(_, _, _)
CoprimeIn(lo, hi, nn) ==
    IF lo > hi THEN <<>>
    ELSE IF lo = hi THEN (IF gcd(lo, nn) = 1 THEN <<lo>> ELSE <<>>)
    ELSE LET mid == (lo + hi) \div 2
         IN  CoprimeIn(lo, mid, nn) \o CoprimeIn(mid + 1, hi, nn)

\* faulty variant of coprime_bases: the candidates start at 1
coprime_bases_FromOne(nn, kk) ==
    LET all == CoprimeIn(1, nn - 1, nn)
    IN  SubSeq(all, 1, IF kk < Len(all) THEN kk ELSE Len(all))

\* fermat_test_coprime_bases: the list the while loop builds, which stops at
\* k bases or at candidate = n
coprime_bases(nn, kk) ==
    LET all == CoprimeIn(2, nn - 1, nn)
    IN  SubSeq(all, 1, IF kk < Len(all) THEN kk ELSE Len(all))

\* faulty variant of fermat_test_coprime_bases: the exponent is n, not n - 1
fermat_test_coprime_bases_ExponentN(nn, kk) ==
    IF TrivialCase(nn).returns THEN TrivialCase(nn).verdict
    ELSE LET bases == coprime_bases(nn, kk)
         IN  IF Len(bases) < kk THEN FALSE
             ELSE \A j \in 1..Len(bases) : pow(bases[j], nn, nn) = 1

\* fermat_test_coprime_bases after its early returns: too few coprime bases
\* is the verdict False; the for loop returns False at the first base that
\* fails and True when none does
fermat_test_coprime_bases(nn, kk) ==
    IF TrivialCase(nn).returns THEN TrivialCase(nn).verdict
    ELSE LET bases == coprime_bases(nn, kk)
         IN  IF Len(bases) < kk THEN FALSE
             ELSE \A j \in 1..Len(bases) : pow(bases[j], nn - 1, nn) = 1

\* fermat_test_coprime_bases: the number of iterations its for loop enters,
\* one pow each: none after an early return or with too few bases, else up to
\* the first base that fails
coprime_rounds(nn, kk) ==
    IF TrivialCase(nn).returns THEN 0
    ELSE LET bases == coprime_bases(nn, kk)
             failing == {j \in 1..Len(bases) : pow(bases[j], nn - 1, nn) # 1}
         IN  IF Len(bases) < kk THEN 0
             ELSE IF failing = {} THEN Len(bases)
             ELSE CHOOSE j \in failing : \A q \in failing : j <= q

-----------------------------------------------------------------------------
(* fermat_test and miller_rabin_test as state machines: one step enters    *)
(* the function, one step per drawn base, one step leaves the loop.        *)

GenIdle ==
    /\ variant = "none" /\ seed = None /\ gen = None /\ twin = None
    /\ twinSeed = None
    /\ outs = <<>> /\ twinOuts = <<>> /\ op = "none" /\ karg = 0
    /\ ret = None /\ raised = FALSE

RandomTests == {"fermat_test", "miller_rabin_test"}

\* faulty variant of BaseRange: randint(2, n - 1)
BaseRange_IncludesNMinus1(nn) == 2..(nn - 1)

\* the values random.randint(2, n - 2) can return
BaseRange(nn) == 2..(nn - 2)

PrimeInputs ==
    {<<t, nn, kk>> : t \in RandomTests, nn \in MinN..MaxN,
                     kk \in MinRounds..MaxRounds}
        \cup {<<t, nn, DefaultK>> : t \in RandomTests, nn \in TableN}
        \cup {<<t, nn, 1>> : t \in RandomTests, nn \in carmichael_numbers}
        \cup {<<"miller_rabin_test", nn, 2>> : nn \in carmichael_numbers}

PrimeInit ==
    /\ GenIdle
    /\ \E inp \in PrimeInputs : test = inp[1] /\ n = inp[2] /\ k = inp[3]
    /\ pc = "start" /\ i = 0 /\ a = 0 /\ d = 0 /\ s = 0 /\ result = FALSE

\* the early returns and, in miller_rabin_test, the decomposition of n - 1
Enter ==
    /\ test \in RandomTests
    /\ pc = "start"
    /\ IF TrivialCase(n).returns
       THEN /\ pc' = "done"
            /\ result' = TrivialCase(n).verdict
            /\ UNCHANGED <<d, s>>
       ELSE /\ pc' = "loop"
            /\ UNCHANGED result
            /\ IF test = "miller_rabin_test"
               THEN \E r \in {Decompose(n - 1, 0)} : d' = r.d /\ s' = r.s
               ELSE UNCHANGED <<d, s>>
    /\ UNCHANGED <<test, n, k, i, a, genVars>>

\* faulty variant of Round: a failing base does not return, the loop goes on
Round_KeepsGoing ==
    /\ test \in RandomTests
    /\ pc = "loop"
    /\ i < k
    /\ \E base \in BaseRange(n) : a' = base /\ i' = i + 1
    /\ UNCHANGED <<pc, result, test, n, k, d, s, genVars>>

\* one iteration of  for _ in range(k):  a = random.randint(2, n - 2)
Round ==
    /\ test \in RandomTests
    /\ pc = "loop"
    /\ i < k
    /\ \E base \in BaseRange(n) :
          /\ a' = base
          /\ i' = i + 1
          /\ IF BasePasses(test, base, d, s, n)
             THEN UNCHANGED <<pc, result>>
             ELSE pc' = "done" /\ result' = FALSE
    /\ UNCHANGED <<test, n, k, d, s, genVars>>

\* faulty variant of Return: True only after at least one round
Return_NeedsARound ==
    /\ test \in RandomTests
    /\ pc = "loop"
    /\ i >= k
    /\ pc' = "done"
    /\ result' = (i >= 1)
    /\ UNCHANGED <<test, n, k, i, a, d, s, genVars>>

\* the loop is exhausted: return True
Return ==
    /\ test \in RandomTests
    /\ pc = "loop"
    /\ i >= k
    /\ pc' = "done"
    /\ result' = TRUE
    /\ UNCHANGED <<test, n, k, i, a, d, s, genVars>>

PrimeNext == Enter \/ Round \/ Return

SpecPrime == PrimeInit /\ [][PrimeNext]_vars

-----------------------------------------------------------------------------
(* fermat_test_coprime_bases: a function of (n, k), applied in one step.   *)

\* the number of integers in [2, n-1] coprime to n, phi(n) - 1:
\* 561 = 3 * 11 * 17, 1105 = 5 * 13 * 17, 1729 = 7 * 13 * 19
CoprimeCount(nn) ==
    CASE nn = 561 -> 2 * 10 * 16 - 1
      [] nn = 1105 -> 4 * 12 * 16 - 1
      [] nn = 1729 -> 6 * 12 * 18 - 1

\* k around the number of coprime candidates below a Carmichael number
EdgeKs(nn) == {CoprimeCount(nn) - 1, CoprimeCount(nn), CoprimeCount(nn) + 1}

CoprimeInputs ==
    {<<nn, kk>> : nn \in MinN..MaxN, kk \in (MinRounds..MaxRounds) \cup {DefaultK}}
        \cup {<<nn, DefaultK>> : nn \in TableN}
        \cup UNION {{<<nn, kk>> : kk \in (1..MaxRounds) \cup {DefaultK} \cup EdgeKs(nn)} :
                    nn \in carmichael_numbers}

CoprimeInit ==
    /\ GenIdle
    /\ test = "fermat_test_coprime_bases"
    /\ \E inp \in CoprimeInputs : n = inp[1] /\ k = inp[2]
    /\ pc = "start" /\ i = 0 /\ a = 0 /\ d = 0 /\ s = 0 /\ result = FALSE

CallCoprime ==
    /\ test = "fermat_test_coprime_bases"
    /\ pc = "start"
    /\ pc' = "done"
    /\ result' = fermat_test_coprime_bases(n, k)
    /\ i' = coprime_rounds(n, k)
    /\ a' = (IF i' = 0 THEN 0 ELSE coprime_bases(n, k)[i'])
    /\ UNCHANGED <<test, n, k, d, s, genVars>>

SpecCoprime == CoprimeInit /\ [][CallCoprime]_vars

\* the three tests side by side
TestsInit == PrimeInit \/ CoprimeInit

TestsNext == Enter \/ Round \/ Return \/ CallCoprime

SpecTests == TestsInit /\ [][TestsNext]_vars

-----------------------------------------------------------------------------
(* Properties.                                                             *)

\* n is prime, by trial division
IsPrime(nn) == nn >= 2 /\ \A q \in 2..(nn - 1) : nn % q # 0

\* C1: for both variants, every seed and every k >= 1, after any earlier
\* calls, randbits(k) returns v with 2^(k-1) <= v <= 2^k - 1 without raising.
C1_RandbitsExactlyKBits ==
    (op = "randbits" /\ karg >= 1) =>
        /\ ~raised
        /\ ~ret.neg
        /\ ~LessMag(ret.mag, Pow2Mag(karg - 1))
        /\ LessMag(ret.mag, Pow2Mag(karg))

\* C1 happens: randbits(33), not a multiple of 32, after earlier calls
C1_Witness ==
    /\ variant = "XORShift" /\ op = "randbits" /\ karg = 33
    /\ Len(outs) = 4 /\ ~raised

\* C2: two generators of one variant constructed with the same explicit seed
\* return the same values from next() call by call, and hold the same fields
\* whenever they have been stepped equally often.
C2_SameSeedSameSequence ==
    (variant \in Variants /\ seed # None) =>
        /\ \A j \in 1..Len(outs) : j <= Len(twinOuts) => outs[j] = twinOuts[j]
        /\ Len(outs) = Len(twinOuts) => gen = twin

\* C2 happens: both generators stepped three times from seed 12345
C2_Witness ==
    /\ seed = FromNat(12345) /\ Len(outs) = 3 /\ Len(twinOuts) = 3

\* C3: fermat_test and miller_rabin_test return True for every prime n,
\* whatever k and whatever bases are drawn: a verdict False means n is not
\* prime.
C3_NoFalseNegative ==
    (test \in RandomTests /\ pc = "done" /\ result = FALSE) => ~IsPrime(n)

\* C3 happens: a prime above 3 went through all k = 20 rounds of Miller-Rabin
C3_Witness ==
    /\ test = "miller_rabin_test" /\ pc = "done" /\ result = TRUE
    /\ IsPrime(n) /\ n > 3 /\ k = DefaultK /\ i = k

StrongLiars(nn) ==
    CASE nn = 561 -> {50, 101, 103, 256, 305, 458, 460, 511}
      [] nn = 1105 -> {47, 72, 98, 123, 132, 242, 256, 268, 293, 327, 341, 353,
                463, 548, 557, 642, 752, 764, 778, 812, 837, 849, 863, 973,
                982, 1007, 1033, 1058}
      [] nn = 1729 -> {9, 10, 12, 16, 69, 74, 75, 81, 90, 92, 100, 103, 108, 120,
                129, 144, 160, 166, 172, 173, 181, 191, 192, 235, 256, 257,
                263, 282, 289, 302, 335, 347, 355, 363, 365, 374, 376, 386,
                402, 426, 433, 438, 439, 443, 484, 493, 529, 536, 545, 555,
                562, 563, 568, 575, 584, 621, 625, 638, 649, 653, 654, 666,
                675, 690, 699, 706, 729, 740, 750, 757, 797, 802, 807, 809,
                810, 828, 829, 831, 841, 857, 872, 888, 898, 900, 901, 919,
                920, 922, 927, 932, 972, 979, 989, 1000, 1023, 1030, 1039,
                1054, 1063, 1075, 1076, 1080, 1091, 1104, 1108, 1145, 1154,
                1161, 1166, 1167, 1174, 1184, 1193, 1200, 1236, 1245, 1286,
                1290, 1291, 1296, 1303, 1327, 1343, 1353, 1355, 1364, 1366,
                1374, 1382, 1394, 1427, 1440, 1447, 1466, 1472, 1473, 1494,
                1537, 1538, 1548, 1556, 1557, 1563, 1569, 1585, 1600, 1609,
                1621, 1626, 1629, 1637, 1639, 1648, 1654, 1655, 1660, 1713,
                1717, 1719, 1720}

\* C6 as stated: miller_rabin_test(n, k) returns False for each Carmichael
\* number n in {561, 1105, 1729} and every k >= 1, whatever bases are drawn.
C6_Original ==
    (test = "miller_rabin_test" /\ pc = "done"
        /\ n \in carmichael_numbers /\ k >= 1) => result = FALSE

\* C6 amended: for each Carmichael number n in {561, 1105, 1729} and every
\* k >= 1, a drawn base ends miller_rabin_test with False exactly when it is
\* not a strong liar of n (8 bases of [2, 559] are for 561, 28 for 1105, 160
\* for 1729); the test returns True only after k strong liars.
C6_FalseUnlessAllBasesStrongLiars ==
    (test = "miller_rabin_test" /\ n \in carmichael_numbers /\ k >= 1 /\ i >= 1) =>
        /\ (pc = "done" /\ result = FALSE) <=> a \notin StrongLiars(n)
        /\ (pc = "done" /\ result = TRUE) => i = k

\* C6 happens: 561 is accepted after the strong liars drawn in two rounds
C6_Witness ==
    /\ test = "miller_rabin_test" /\ pc = "done" /\ result = TRUE
    /\ n = 561 /\ k = 2 /\ i = 2 /\ a = 50

\* C7: with k = 20 and whatever bases are drawn, fermat_test and
\* miller_rabin_test return False for n in {0, 1, 4, 6, 8, 9, 100} and True
\* for n in {2, 3, 5, 7, 11, 97}.
C7_TableVerdicts ==
    (test \in RandomTests /\ pc = "done" /\ k = DefaultK) =>
        /\ n \in {0, 1, 4, 6, 8, 9, 100} => result = FALSE
        /\ n \in {2, 3, 5, 7, 11, 97} => result = TRUE

\* C7 happens: 97 passed 20 drawn bases of fermat_test
C7_Witness ==
    /\ test = "fermat_test" /\ pc = "done" /\ result = TRUE
    /\ n = 97 /\ k = DefaultK /\ i = 20

\* C8: for both variants and every k <= 0, randbits(k) returns 0 and raises
\* nothing.
C8_RandbitsNonPositiveIsZero ==
    (op = "randbits" /\ karg <= 0) => (ret = Zero /\ ~raised)

\* C8 happens: randbits with a negative k after an earlier call
C8_Witness ==
    /\ variant = "LCG" /\ op = "randbits" /\ karg < 0 /\ Len(outs) = 1

\* the 32-bit word with the 16-bit halves hi and lo
Word(hi, lo) ==
    MkInt(FALSE, Trim(<<lo % 256, lo \div 256, hi % 256, hi \div 256>>))

\* x mod 2^32 as its 16-bit halves <<low, high>>, read off the digits of x
\* (for x < 0: 2^32 minus the magnitude's residue)
Halves(x) ==
    LET t0 == Digit(x.mag, 1) + 256 * Digit(x.mag, 2)
        t1 == Digit(x.mag, 3) + 256 * Digit(x.mag, 4)
    IN  IF ~x.neg THEN <<t0, t1>>
        ELSE <<(65536 - t0) % 65536,
               (65535 - t1 + (IF t0 = 0 THEN 1 ELSE 0)) % 65536>>

\* (1103515245 * x + 12345) mod 2^32, by long multiplication on 16-bit halves
Recurrence(x) ==
    LET h == Halves(x)
        a0 == 1103515245 % 65536
        a1 == 1103515245 \div 65536
        lo == a0 * h[1] + 12345
        hi == (((a1 * h[1]) % 65536) + ((a0 * h[2]) % 65536) + (lo \div 65536)) % 65536
    IN  Word(hi, lo % 65536)

\* the first outputs of LCG(seed=12345): 3554416254, 2802067423, 3596950572
First12345 == <<Word(54236, 5758), Word(42756, 10207), Word(54885, 7212)>>

\* C9: next() on an LCG in state s (the verbatim seed, or the state an
\* earlier call left) sets state to (1103515245 * s + 12345) mod 2^32 and
\* returns that new state; LCG(seed=12345) yields 3554416254, 2802067423,
\* 3596950572.
C9_LcgRecurrence ==
    (variant = "LCG" /\ seed # None) =>
        /\ gen.state = (IF outs = <<>> THEN seed ELSE outs[Len(outs)])
        /\ \A j \in 1..Len(outs) :
              outs[j] = Recurrence(IF j = 1 THEN seed ELSE outs[j - 1])
        /\ seed = FromNat(12345) =>
              \A j \in 1..Len(outs) : j <= 3 => outs[j] = First12345[j]
        /\ op = "next" => ret = gen.state

\* C9 happens: three next() calls on LCG(seed=12345)
C9_Witness ==
    /\ variant = "LCG" /\ seed = FromNat(12345) /\ op = "next" /\ Len(outs) = 3

\* the residue of x modulo 2^128 (for x < 0: 2^128 minus the magnitude's)
Residue128(x) ==
    IF ~x.neg THEN LowMag(x.mag, 128)
    ELSE LowMag(SubMag(Pow2Mag(128), LowMag(x.mag, 128)), 128)

\* bits 32*q .. 32*q + 31 of x, as a number
SeedSlice(x, q) ==
    LET r == Residue128(x)
    IN  MkInt(FALSE, Trim([j \in 1..4 |-> Digit(r, 4 * q + j)]))

\* C10: XORShift(seed) holds x=1, y=0, z=0, w=0 when the four 32-bit slices of
\* the seed are all zero (seed 0 in particular) and exactly the four slices
\* otherwise; the first next() after seed 0 returns normally (2057).
C10_XorshiftSeeding ==
    (variant = "XORShift" /\ seed # None) =>
        /\ outs = <<>> =>
              IF \A q \in 0..3 : SeedSlice(seed, q) = Zero
              THEN gen = [x |-> One, y |-> Zero, z |-> Zero, w |-> Zero]
              ELSE gen = [x |-> SeedSlice(seed, 0), y |-> SeedSlice(seed, 1),
                          z |-> SeedSlice(seed, 2), w |-> SeedSlice(seed, 3)]
        /\ (seed = Zero /\ outs = <<>>) =>
              gen = [x |-> One, y |-> Zero, z |-> Zero, w |-> Zero]
        /\ (seed = Zero /\ outs # <<>>) => outs[1] = FromNat(2057)
        /\ (seed = Zero /\ op = "next") => ~raised

\* C10 happens: the first next() on XORShift(0)
C10_Witness ==
    /\ variant = "XORShift" /\ seed = Zero /\ op = "next" /\ Len(outs) = 1
    /\ ret = FromNat(2057)

\* C11: the four words of an XORShift generator are never all zero, after
\* construction with any seed and after any next() and randbits() calls.
C11_NeverAllZero ==
    variant = "XORShift" =>
        ~(gen.x = Zero /\ gen.y = Zero /\ gen.z = Zero /\ gen.w = Zero)

\* C11 happens: four outputs drawn, the last by randbits, from the seed
\* -2^128 whose slices are all zero
C11_Witness ==
    /\ variant = "XORShift" /\ seed = MkInt(TRUE, Pow2Mag(128))
    /\ op = "randbits" /\ karg >= 1 /\ Len(outs) = 4

\* x is a number in [0, 2^32)
InWord(x) == ~x.neg /\ BitLength(x.mag) <= 32

\* C12: for both variants and every seed, every value next() returns lies in
\* [0, 2^32), and after every next() LCG.state, respectively each of the
\* XORShift words x, y, z, w, lies in [0, 2^32).
C12_OutputsAndStateAre32Bit ==
    variant \in Variants =>
        /\ \A j \in 1..Len(outs) : InWord(outs[j])
        /\ op = "next" => InWord(ret)
        /\ Len(outs) >= 1 =>
              IF variant = "LCG" THEN InWord(gen.state)
              ELSE InWord(gen.x) /\ InWord(gen.y) /\ InWord(gen.z) /\ InWord(gen.w)

\* C12 happens: next() on an LCG whose seed is negative and wider than the
\* state
C12_Witness ==
    /\ variant = "LCG" /\ seed = MkInt(TRUE, Pow2Mag(128))
    /\ op = "next" /\ Len(outs) = 2

\* C13: for every n <= 1, negative n included, and every k, fermat_test,
\* miller_rabin_test and fermat_test_coprime_bases return False without
\* entering a loop: no base is drawn and no pow is evaluated.
C13_OutOfDomainIsFalse ==
    (test # "none" /\ n <= 1) =>
        /\ pc \in {"start", "done"}
        /\ i = 0 /\ a = 0
        /\ pc = "done" => result = FALSE

\* C13 happens: fermat_test_coprime_bases returned for a negative n
C13_Witness ==
    /\ test = "fermat_test_coprime_bases" /\ n < 0 /\ k = DefaultK
    /\ pc = "done" /\ result = FALSE

\* the values cnt successive next() calls return on a generator with the
\* fields g, and the fields they leave
RECURSIVE NextOuts(_, _, _)
NextOuts(v, g, cnt) ==
    IF cnt <= 0 THEN <<>>
    ELSE LET r == NextOf(v, g) IN <<r.out>> \o NextOuts(v, r.gen, cnt - 1)

RECURSIVE NextGen(_, _, _)
NextGen(v, g, cnt) ==
    IF cnt <= 0 THEN g ELSE NextGen(v, NextOf(v, g).gen, cnt - 1)

\* ceil(kk / 32) for kk >= 1
CeilDiv32(kk) == CHOOSE q \in 1..kk : 32 * q >= kk /\ 32 * (q - 1) < kk

\* o_1 * 2^(32(w-1)) + ... + o_w for 32-bit words o_1..o_w, as a magnitude:
\* the words' digits laid side by side, the last word lowest
Concat(words) ==
    Trim([j \in 1..(4 * Len(words)) |->
            Digit(words[Len(words) - ((j - 1) \div 4)].mag, ((j - 1) % 4) + 1)])

\* x OR 2^b for a magnitude x < 2^(b+1): 2^b is added when bit b is clear
SetBit(x, b) ==
    IF (Digit(x, (b \div 8) + 1) \div (2 ^ (b % 8))) % 2 = 1 THEN MkInt(FALSE, x)
    ELSE MkInt(FALSE, AddMag(x, Pow2Mag(b)))

\* C14: for both variants and k >= 1, randbits(k) makes exactly
\* w = ceil(k/32) next() calls, leaving the generator w steps ahead, and
\* returns ((o_1 * 2^(32(w-1)) + ... + o_w) mod 2^k) OR 2^(k-1) for their
\* outputs o_1..o_w: the first word drawn is the most significant.
C14_RandbitsConcatenatesWords ==
    [][(op' = "randbits" /\ karg' >= 1) =>
          \E w \in {CeilDiv32(karg')} :
          \E drawn \in {NextOuts(variant, gen, w)} :
          \E low \in {LowMag(Concat(drawn), karg')} :
              /\ outs' = outs \o drawn
              /\ gen' = NextGen(variant, gen, w)
              /\ ~raised'
              /\ ret' = SetBit(low, karg' - 1)]_vars

\* C14 happens: randbits(63) drew two words on an LCG that had been stepped
C14_Witness ==
    /\ variant = "LCG" /\ op = "randbits" /\ karg = 63 /\ Len(outs) = 3
    /\ ~raised

\* base^dd mod nn is 1 or nn-1, or base^(2^r * dd) mod nn is nn-1 for some
\* r in 1..ss-1
StrongPass(base, dd, ss, nn) ==
    \/ pow(base, dd, nn) \in {1, nn - 1}
    \/ \E r \in 1..(ss - 1) : pow(base, (2 ^ r) * dd, nn) = nn - 1

\* C15: in miller_rabin_test for odd n > 3 the decomposition leaves s >= 1
\* and an odd d with n - 1 = 2^s * d; the drawn base a ends the test with
\* False exactly when neither a^d mod n is 1 or n-1 nor a^(2^r * d) mod n is
\* n-1 for some r in 1..s-1; False is returned in no other way.
C15_MillerRabinRound ==
    (test = "miller_rabin_test" /\ n > 3 /\ n % 2 = 1 /\ pc # "start") =>
        /\ s >= 1 /\ d % 2 = 1 /\ (2 ^ s) * d = n - 1
        /\ i >= 1 => ((pc = "done" /\ result = FALSE) <=> ~StrongPass(a, d, s, n))
        /\ (pc = "done" /\ result = FALSE) => i >= 1

\* C15 happens: base 2 passes a round for 17 = 2^4 + 1 in the squaring loop
\* (2^4 = 16), and the test goes on
C15_Witness ==
    /\ test = "miller_rabin_test" /\ n = 17 /\ d = 1 /\ s = 4
    /\ pc = "loop" /\ i = 1 /\ a = 2 /\ k = 2

\* the condition under which a round lets the loop go on: pow(a, n-1, n) = 1
\* in fermat_test, the strong condition in miller_rabin_test
RoundPasses(t, base, dd, ss, nn) ==
    IF t = "fermat_test" THEN pow(base, nn - 1, nn) = 1
    ELSE StrongPass(base, dd, ss, nn)

\* C16: in fermat_test and miller_rabin_test for odd n > 3, past the entry
\* every step is taken inside the loop (none after a return) and is either
\* one more base drawn while fewer than k have been, which ends the test
\* with False if it fails and leaves the loop running if it passes, or the
\* return of True once exactly k bases (none for k <= 0) have been drawn.
C16_ShortCircuit ==
    [][(test \in RandomTests /\ n > 3 /\ n % 2 = 1 /\ pc # "start") =>
          /\ pc = "loop"
          /\ \/ /\ i < k /\ i' = i + 1 /\ a' \in 2..(n - 2)
                /\ IF RoundPasses(test, a', d, s, n)
                   THEN pc' = "loop" /\ result' = result
                   ELSE pc' = "done" /\ result' = FALSE
             \/ /\ i = (IF k > 0 THEN k ELSE 0) /\ i' = i /\ a' = a
                /\ pc' = "done" /\ result' = TRUE]_vars

\* C16 happens: the first of two bases failed for 15 and ended fermat_test
C16_Witness ==
    /\ test = "fermat_test" /\ n = 15 /\ k = 2 /\ i = 1
    /\ pc = "done" /\ result = FALSE

\* the integers of [2, nn-1] that share no divisor above 1 with nn
Coprimes(nn) ==
    {b \in 2..(nn - 1) : \A q \in 2..b : ~(b % q = 0 /\ nn % q = 0)}

\* the kk smallest members of the set S
Smallest(S, kk) == {b \in S : Cardinality({c \in S : c <= b}) <= kk}

Bit(x, j) == (Digit(x.mag, (j \div 8) + 1) \div (2 ^ (j % 8))) % 2

\* bit j of t = (x xor (x << 11)) mod 2^32, for j in 0..31
TBit(x, j) == (Bit(x, j) + (IF j >= 11 THEN Bit(x, j - 11) ELSE 0)) % 2

\* bit j of (w xor (w >> 19)) xor (t xor (t >> 8)) for 32-bit x and w
WBit(x, w, j) ==
    (Bit(w, j) + (IF j + 19 <= 31 THEN Bit(w, j + 19) ELSE 0)
        + TBit(x, j) + (IF j + 8 <= 31 THEN TBit(x, j + 8) ELSE 0)) % 2

\* the 32-bit number with the bits WBit(x, w, 0..31)
NewW(x, w) ==
    MkInt(FALSE, Trim([q \in 1..4 |->
        WBit(x, w, 8 * q - 8) + 2 * WBit(x, w, 8 * q - 7)
            + 4 * WBit(x, w, 8 * q - 6) + 8 * WBit(x, w, 8 * q - 5)
            + 16 * WBit(x, w, 8 * q - 4) + 32 * WBit(x, w, 8 * q - 3)
            + 64 * WBit(x, w, 8 * q - 2) + 128 * WBit(x, w, 8 * q - 1)]))

\* C18: one next() on an XORShift generator in state (x, y, z, w) leaves
\* the state (y, z, w, (w xor (w >> 19)) xor (t xor (t >> 8))) with
\* t = (x xor (x << 11)) mod 2^32, and returns the new w; the code's
\* self.x ^ (self.x << 11) & 0xFFFFFFFF is this t.
C18_XorshiftStep ==
    [][(variant = "XORShift" /\ op' = "next") =>
          /\ gen' = [x |-> gen.y, y |-> gen.z, z |-> gen.w,
                      w |-> NewW(gen.x, gen.w)]
          /\ ret' = gen'.w
          /\ outs' = Append(outs, ret')]_vars

\* C18 happens: the third next() on a generator whose four words differ
C18_Witness ==
    /\ variant = "XORShift" /\ seed = Slices(1, 2, 3, 4)
    /\ op = "next" /\ Len(outs) = 3

\* C19: for every odd n > 3, a base of [2, n-2] that passes a round of
\* miller_rabin_test has pow(a, n-1, n) = 1, the condition of fermat_test:
\* on the same bases, miller_rabin_test returning True implies fermat_test
\* returning True.
C19_MillerRabinAtLeastAsStrict ==
    (test = "miller_rabin_test" /\ n > 3 /\ n % 2 = 1 /\ i >= 1
        /\ ~(pc = "done" /\ result = FALSE)) => pow(a, n - 1, n) = 1

\* C19 happens: a base passed a Miller-Rabin round for the composite 1105
C19_Witness ==
    /\ test = "miller_rabin_test" /\ n = 1105 /\ k = 2 /\ i = 1
    /\ pc = "loop" /\ a = 47

\* C20: with k <= 0, fermat_test and miller_rabin_test draw no base and
\* return True for every odd n > 3, odd composites such as 9 included.
C20_NoRoundsMeansTrue ==
    (test \in RandomTests /\ k <= 0 /\ n > 3 /\ n % 2 = 1) =>
        /\ i = 0 /\ a = 0
        /\ pc = "done" => result = TRUE

\* C20 happens: miller_rabin_test(9, 0) returned True
C20_Witness ==
    /\ test = "miller_rabin_test" /\ n = 9 /\ k = 0 /\ i = 0
    /\ pc = "done" /\ result = TRUE

\* the residue of x modulo 2^e (for x < 0: 2^e minus the magnitude's)
SeedResidue(x, e) ==
    IF ~x.neg THEN LowMag(x.mag, e)
    ELSE LowMag(SubMag(Pow2Mag(e), LowMag(x.mag, e)), e)

\* C21: two LCG generators whose seeds are congruent modulo 2^32 return the
\* same values from next() call by call; two XORShift generators whose seeds
\* are congruent modulo 2^128, negative seeds included, start with the same
\* x, y, z, w and return the same values call by call.
C21_OnlySeedResidueMatters ==
    (variant \in Variants /\ seed # None /\ twinSeed # None
        /\ SeedResidue(seed, StateWidth(variant))
                = SeedResidue(twinSeed, StateWidth(variant))) =>
            /\ \A j \in 1..Len(outs) : j <= Len(twinOuts) => outs[j] = twinOuts[j]
            /\ (variant = "XORShift" /\ Len(outs) = Len(twinOuts)) => gen = twin
            /\ (variant = "LCG" /\ Len(outs) = Len(twinOuts) /\ outs # <<>>)
                  => gen = twin

\* C21 happens: three outputs each from XORShift generators seeded with a
\* positive number and with a negative one congruent to it
C21_Witness ==
    /\ variant = "XORShift" /\ seed = Slices(1, 2, 3, 4)
    /\ twinSeed # seed /\ twinSeed.neg
    /\ Len(outs) = 3 /\ Len(twinOuts) = 3

====
